---- MODULE Spec2Model ----
(***************************************************************************)
(* Model of src/src/position.rs: the block-list coordinate space           *)
(* LinearSpace and the per-position coordinate space CoordSpace.           *)
(*                                                                         *)
(* A behaviour is the life of one instance: a constructor call creates it, *)
(* then methods are called on it one at a time.  Every call leaves a call  *)
(* record (op, arg, pre, res, ret) that the caller reads before it returns *)
(* to "idle" and makes the next call.  A Rust panic (an index past the end *)
(* of a Vec) ends the behaviour: res = "panic" and nothing is called any   *)
(* more.                                                                   *)
(***************************************************************************)
EXTENDS Integers, Sequences, FiniteSets, TLC

VARIABLES self, pc, op, arg, pre, res, ret, zrun, plain

vars == <<self, pc, op, arg, pre, res, ret, zrun, plain>>

(* ------------------------------ bounds --------------------------------- *)

\* start and stop of LinearSpace(start, stop, label) are drawn from
\* 0..MaxCoord
MaxCoord == 4

\* a positions / indices argument holds at most MaxPositions values
MaxPositions == 3

\* from_arrays gets arrays of at most MaxArr entries; from_blocks gets at
\* most MaxArr blocks that flatten to at most MaxArr entries
MaxArr == 2

\* arrays_to_blocks gets arrays of at most MaxData entries
MaxData == 3

LSCoords == 0..MaxCoord
LSLabels == {"A", "B"}

\* the coordinates a CoordSpace is built from: -1 is the gap sentinel, -2
\* stands for the invalid values below it
CSCoords == -2..2
\* "s" and "g" are the supported labels, "x" stands for any other
CSLabels == {"s", "g", "x"}

SeqsUpTo(S, n) == UNION {[1..m -> S] : m \in 0..n}

Max2(a, b) == IF a >= b THEN a ELSE b
Min2(a, b) == IF a <= b THEN a ELSE b

(* ------------------------------ helpers -------------------------------- *)

\* (start..stop).collect(): empty when start >= stop
Range(start, stop) ==
    [k \in 1..(IF stop > start THEN stop - start ELSE 0) |-> start + k - 1]

\* positions.iter().max() of a non-empty list
MaxOf(positions) ==
    CHOOSE x \in {positions[k] : k \in 1..Len(positions)} :
        \A k \in 1..Len(positions) : positions[k] <= x

\* positions.contains(x)
Contains(positions, x) == \E k \in 1..Len(positions) : positions[k] = x

\* Vec::insert one place too far left: insert(i - 1, x)
VecInsertBefore(v, i, x) == SubSeq(v, 1, i - 1) \o <<x>> \o SubSeq(v, i, Len(v))

\* Vec::insert(i, x) and Vec::remove(i), i counted from 0
VecInsert(v, i, x) == SubSeq(v, 1, i) \o <<x>> \o SubSeq(v, i + 1, Len(v))
VecRemove(v, i) == SubSeq(v, 1, i) \o SubSeq(v, i + 2, Len(v))
VecSet(v, i, x) == [v EXCEPT ![i + 1] = x]

\* sort_unstable() followed by reverse(): descending order, duplicates kept
RECURSIVE SortDesc(_)
SortDesc(positions) ==
    IF positions = <<>> THEN <<>>
    ELSE LET m == MaxOf(positions)
             k == CHOOSE j \in 1..Len(positions) : positions[j] = m
         IN <<m>> \o SortDesc(VecRemove(positions, k - 1))

(* ---------------------------- LinearSpace ------------------------------ *)

\* sum of (stop - start) over the first k triples
RECURSIVE PrefixLen(_, _)
PrefixLen(coords, k) ==
    IF k = 0 THEN 0
    ELSE PrefixLen(coords, k - 1) + (coords[k][2] - coords[k][1])

LS_len(coords) == PrefixLen(coords, Len(coords))

\* the relative [start, stop) of every block, from the block list as it is
\* when remove is entered
RelBlocks(coords) ==
    [k \in 1..Len(coords) |->
        <<PrefixLen(coords, k) - (coords[k][2] - coords[k][1]),
          PrefixLen(coords, k)>>]

\* the absolute position of relative position rel_pos in the block that
\* starts at abs_start and at relative position rel_start
AbsPos(abs_start, rel_pos, rel_start) == abs_start + (rel_pos - rel_start)

\* One pass of the inner loop body at index i (counted from 0): the three
\* cases of remove.  hit tells whether a case matched (the loop breaks).
RemoveAt(coords, rel, rel_pos, i, offset) ==
    LET rel_start == rel[1]
        rel_stop  == rel[2]
        abs_start == coords[i + 1][1]
        abs_stop  == coords[i + 1][2]
        id        == coords[i + 1][3]
        abs_pos   == AbsPos(abs_start, rel_pos, rel_start)
    IN IF rel_pos > rel_start /\ rel_pos < rel_stop - 1
       THEN [hit |-> TRUE,
             coords |-> VecInsert(VecSet(coords, i, <<abs_start, abs_pos, id>>),
                                  i + 1, <<abs_pos + 1, abs_stop, id>>),
             offset |-> offset + 1]
       ELSE IF rel_pos = rel_start
       THEN IF abs_start + 1 = abs_stop
            THEN [hit |-> TRUE, coords |-> VecRemove(coords, i),
                  offset |-> offset]
            ELSE [hit |-> TRUE,
                  coords |-> VecSet(coords, i, <<abs_start + 1, abs_stop, id>>),
                  offset |-> offset + 1]
       ELSE IF rel_pos = rel_stop - 1
       THEN [hit |-> TRUE,
             coords |-> VecSet(coords, i, <<abs_start, abs_stop - 1, id>>),
             offset |-> offset]
       ELSE [hit |-> FALSE, coords |-> coords, offset |-> offset]

\* for i in (0..length).rev(): i runs from length-1 down to 0.  rel_blocks[i]
\* is always inside rel_blocks; self.coords[i] panics when the block list has
\* become shorter than i+1.
RECURSIVE ScanBlocks(_, _, _, _, _)
ScanBlocks(coords, rel_blocks, rel_pos, i, offset) ==
    IF i < 0
    THEN [coords |-> coords, offset |-> offset, panic |-> FALSE]
    ELSE IF i >= Len(coords)
    THEN [coords |-> coords, offset |-> offset, panic |-> TRUE]
    ELSE LET r == RemoveAt(coords, rel_blocks[i + 1], rel_pos, i, offset)
         IN IF r.hit
            THEN [coords |-> r.coords, offset |-> r.offset, panic |-> FALSE]
            ELSE ScanBlocks(coords, rel_blocks, rel_pos, i - 1, offset)

\* for &rel_pos in positions.iter(): k is the index of the next position.
\* rel_blocks.len() - offset is a usize subtraction: it panics (or wraps and
\* then indexes rel_blocks past its end) when offset > rel_blocks.len().
RECURSIVE RemoveLoop(_, _, _, _, _)
RemoveLoop(coords, rel_blocks, positions, k, offset) ==
    IF k > Len(positions)
    THEN [coords |-> coords, status |-> "Ok"]
    ELSE IF offset > Len(rel_blocks)
    THEN [coords |-> coords, status |-> "panic"]
    ELSE LET r == ScanBlocks(coords, rel_blocks, positions[k],
                             (Len(rel_blocks) - offset) - 1, offset)
         IN IF r.panic
            THEN [coords |-> r.coords, status |-> "panic"]
            ELSE RemoveLoop(r.coords, rel_blocks, positions, k + 1, r.offset)

\* LinearSpace::_remove
LS_remove(coords, positions) ==
    IF positions = <<>>
    THEN [coords |-> coords, status |-> "Ok"]
    ELSE IF MaxOf(positions) >= LS_len(coords)
    THEN [coords |-> coords, status |-> "IndexError"]
    ELSE RemoveLoop(coords, RelBlocks(coords), SortDesc(positions), 1, 0)

\* LinearSpace::_retain
LS_retain(coords, positions) ==
    IF positions = <<>>
    THEN [coords |-> coords, status |-> "Ok"]
    ELSE IF MaxOf(positions) >= LS_len(coords)
    THEN [coords |-> coords, status |-> "IndexError"]
    ELSE LS_remove(coords,
                   SelectSeq(Range(0, LS_len(coords)),
                             LAMBDA x : ~Contains(positions, x)))

(* ----------------------------- CoordSpace ------------------------------ *)

\* CoordSpace::__new__
CS_new(start, stop) ==
    IF start > stop
    THEN [coords |-> <<>>, status |-> "ValueError"]
    ELSE [coords |-> Range(start, stop), status |-> "Ok"]

\* CoordSpace::extract: self.coords[*i as usize] panics for a negative i,
\* which the cast turns into an index past the end
CS_extract(coords, indices) ==
    IF indices = <<>>
    THEN [coords |-> coords, status |-> "Ok"]
    ELSE IF MaxOf(indices) >= Len(coords)
    THEN [coords |-> <<>>, status |-> "IndexError"]
    ELSE IF \E k \in 1..Len(indices) : indices[k] < 0
    THEN [coords |-> <<>>, status |-> "panic"]
    ELSE [coords |-> [k \in 1..Len(indices) |-> coords[indices[k] + 1]],
          status |-> "Ok"]

\* enumerate().filter(..).map(..): the entries of coords whose (0-based)
\* index is in indices (listed = TRUE) or is not in indices (listed = FALSE)
FilterIndex(coords, indices, listed) ==
    LET kept == SelectSeq(Range(0, Len(coords)),
                          LAMBDA i : Contains(indices, i) = listed)
    IN [k \in 1..Len(kept) |-> coords[kept[k] + 1]]

\* CS_remove with the bounds check made after the entries were filtered
CS_removeLate(coords, indices) ==
    IF indices = <<>>
    THEN [coords |-> coords, status |-> "Ok"]
    ELSE [coords |-> FilterIndex(coords, indices, FALSE),
          status |-> IF MaxOf(indices) >= Len(coords)
                     THEN "IndexError" ELSE "Ok"]

\* CoordSpace::remove
CS_remove(coords, indices) ==
    IF indices = <<>>
    THEN [coords |-> coords, status |-> "Ok"]
    ELSE IF MaxOf(indices) >= Len(coords)
    THEN [coords |-> coords, status |-> "IndexError"]
    ELSE [coords |-> FilterIndex(coords, indices, FALSE),
          status |-> "Ok"]

\* CS_retain that takes the empty list the way remove does: nothing changes
CS_retainEmptyKeeps(coords, indices) ==
    IF indices = <<>>
    THEN [coords |-> coords, status |-> "Ok"]
    ELSE IF MaxOf(indices) >= Len(coords)
    THEN [coords |-> coords, status |-> "IndexError"]
    ELSE [coords |-> FilterIndex(coords, indices, TRUE),
          status |-> "Ok"]

\* CoordSpace::retain
CS_retain(coords, indices) ==
    IF indices = <<>>
    THEN [coords |-> <<>>, status |-> "Ok"]
    ELSE IF MaxOf(indices) >= Len(coords)
    THEN [coords |-> coords, status |-> "IndexError"]
    ELSE [coords |-> FilterIndex(coords, indices, TRUE),
          status |-> "Ok"]

Block(id, start, stop) == [id |-> id, start |-> start, stop |-> stop]

\* blocks_to_arrays over the closed range start..=stop
RECURSIVE blocks_to_arraysInclusive(_)
blocks_to_arraysInclusive(blocks) ==
    IF blocks = <<>>
    THEN [data |-> <<>>, ids |-> <<>>]
    ELSE LET new_coords == Range(blocks[1].start, blocks[1].stop + 1)
             new_ids    == [k \in 1..Len(new_coords) |-> blocks[1].id]
             rest       == blocks_to_arraysInclusive(Tail(blocks))
         IN [data |-> new_coords \o rest.data, ids |-> new_ids \o rest.ids]

\* blocks_to_arrays
RECURSIVE blocks_to_arrays(_)
blocks_to_arrays(blocks) ==
    IF blocks = <<>>
    THEN [data |-> <<>>, ids |-> <<>>]
    ELSE LET new_coords == Range(blocks[1].start, blocks[1].stop)
             new_ids    == [k \in 1..Len(new_coords) |-> blocks[1].id]
             rest       == blocks_to_arrays(Tail(blocks))
         IN [data |-> new_coords \o rest.data, ids |-> new_ids \o rest.ids]

\* the loop of from_blocks and from_arrays over (data[i], ids[i]), from the
\* k-th pair on: "s" keeps the value, "g" stores -1, another label fails
RECURSIVE MapLabels(_, _, _)
MapLabels(data, ids, k) ==
    IF k > Len(data)
    THEN [coords |-> <<>>, status |-> "Ok"]
    ELSE IF ids[k] \notin {"s", "g"}
    THEN [coords |-> <<>>, status |-> "ValueError"]
    ELSE LET rest == MapLabels(data, ids, k + 1)
         IN IF rest.status # "Ok"
            THEN rest
            ELSE [coords |-> <<IF ids[k] = "s" THEN data[k] ELSE -1>>
                             \o rest.coords,
                  status |-> "Ok"]

\* CoordSpace::from_blocks
CS_from_blocks(blocks) ==
    IF Len(blocks) = 0
    THEN [coords |-> <<>>, status |-> "Ok"]
    ELSE LET a == blocks_to_arrays(blocks)
         IN MapLabels(a.data, a.ids, 1)

\* CoordSpace::from_arrays
CS_from_arrays(data, ids) ==
    IF Len(data) # Len(ids)
    THEN [coords |-> <<>>, status |-> "ValueError"]
    ELSE IF Len(data) = 0
    THEN [coords |-> <<>>, status |-> "Ok"]
    ELSE MapLabels(data, ids, 1)

\* the label to_blocks infers from a coordinate; "error" for a value < -1
InferId(x) == IF x >= 0 THEN "s" ELSE IF x = -1 THEN "g" ELSE "error"

\* One pass of the loop body of to_blocks.  st holds blocks, last_start,
\* last_id, negative_length and err; c_id is the label the loop computes
\* for this pass.
ToBlocksStep(st, c_id, c_pos, p_pos) ==
    IF c_pos = -1 /\ p_pos = -1
    THEN [st EXCEPT !.negative_length = st.negative_length + 1]
    ELSE IF c_pos < -1 \/ p_pos < -1
    THEN [st EXCEPT !.err = TRUE]
    ELSE IF c_pos = -1 /\ p_pos >= 0
    THEN [st EXCEPT !.blocks = Append(st.blocks,
                                      Block(st.last_id, st.last_start, p_pos + 1)),
                    !.last_id = c_id,
                    !.last_start = c_pos,
                    !.negative_length = 0]
    ELSE IF c_pos >= 0 /\ p_pos = -1
    THEN [st EXCEPT !.blocks = Append(st.blocks,
                                      Block(st.last_id, 0, st.negative_length)),
                    !.last_id = c_id,
                    !.last_start = c_pos,
                    !.negative_length = 0]
    ELSE IF c_pos # p_pos + 1
    THEN [st EXCEPT !.blocks = Append(st.blocks,
                                      Block(st.last_id, st.last_start, p_pos + 1)),
                    !.last_id = c_id,
                    !.last_start = c_pos]
    ELSE st

\* for i in 1..self.coords.len(): i counted from 0; the label of the
\* current entry is matched on self.coords[0]
RECURSIVE ToBlocksLoop(_, _, _)
ToBlocksLoop(coords, st, i) ==
    IF i >= Len(coords) \/ st.err
    THEN st
    ELSE ToBlocksLoop(coords,
                      ToBlocksStep(st, InferId(coords[1]), coords[i + 1], coords[i]),
                      i + 1)

\* CoordSpace::to_blocks
CS_to_blocks(coords) ==
    IF Len(coords) = 0
    THEN [blocks |-> <<>>, status |-> "Ok"]
    ELSE IF InferId(coords[1]) = "error"
    THEN [blocks |-> <<>>, status |-> "ValueError"]
    ELSE LET st == ToBlocksLoop(coords,
                                [blocks |-> <<>>, last_start |-> coords[1],
                                 last_id |-> InferId(coords[1]),
                                 negative_length |-> 0, err |-> FALSE],
                                1)
         IN IF st.err
            THEN [blocks |-> <<>>, status |-> "ValueError"]
            ELSE [blocks |-> Append(st.blocks,
                                    Block(st.last_id, st.last_start,
                                          coords[Len(coords)] + 1)),
                  status |-> "Ok"]

\* CoordSpace::len_all, len_seq and len_gap
CS_len_all(coords) == Len(coords)
CS_len_seqFromZero(coords) == Len(SelectSeq(coords, LAMBDA x : x >= 0))
CS_len_seq(coords) == Len(SelectSeq(coords, LAMBDA x : x > 0))
CS_len_gap(coords) == Len(SelectSeq(coords, LAMBDA x : x < 0))

(* ------------------------------- codec --------------------------------- *)

\* the loop body of arrays_to_blocks that cuts at a change of label only
ArraysStepNoJump(st, c_id, c_pos, p_pos) ==
    IF c_id = st.last_id
    THEN st
    ELSE [blocks |-> Append(st.blocks, Block(st.last_id, st.last_start, p_pos + 1)),
          last_id |-> c_id,
          last_start |-> c_pos]

\* One pass of the loop body of arrays_to_blocks.  st holds blocks, last_id
\* and last_start.
ArraysStep(st, c_id, c_pos, p_pos) ==
    IF c_id = st.last_id
    THEN IF c_pos # p_pos + 1
         THEN [blocks |-> Append(st.blocks,
                                 Block(st.last_id, st.last_start, p_pos + 1)),
               last_id |-> c_id,
               last_start |-> c_pos]
         ELSE st
    ELSE [blocks |-> Append(st.blocks, Block(st.last_id, st.last_start, p_pos + 1)),
          last_id |-> c_id,
          last_start |-> c_pos]

\* for i in 1..data.len(): i counted from 0
RECURSIVE ArraysLoop(_, _, _, _)
ArraysLoop(data, ids, st, i) ==
    IF i >= Len(data)
    THEN st
    ELSE ArraysLoop(data, ids,
                    ArraysStep(st, ids[i + 1], data[i + 1], data[i]),
                    i + 1)

\* arrays_to_blocks whose last block stops at the last position
arrays_to_blocksShortFlush(data, ids) ==
    IF Len(data) # Len(ids)
    THEN [blocks |-> <<>>, status |-> "ValueError"]
    ELSE IF Len(data) = 0
    THEN [blocks |-> <<>>, status |-> "Ok"]
    ELSE LET st == ArraysLoop(data, ids,
                              [blocks |-> <<>>, last_id |-> ids[1],
                               last_start |-> data[1]],
                              1)
         IN [blocks |-> Append(st.blocks,
                               Block(st.last_id, st.last_start, data[Len(data)])),
             status |-> "Ok"]

\* arrays_to_blocks
arrays_to_blocks(data, ids) ==
    IF Len(data) # Len(ids)
    THEN [blocks |-> <<>>, status |-> "ValueError"]
    ELSE IF Len(data) = 0
    THEN [blocks |-> <<>>, status |-> "Ok"]
    ELSE LET st == ArraysLoop(data, ids,
                              [blocks |-> <<>>, last_id |-> ids[1],
                               last_start |-> data[1]],
                              1)
         IN [blocks |-> Append(st.blocks,
                               Block(st.last_id, st.last_start,
                                     data[Len(data)] + 1)),
             status |-> "Ok"]

(* ------------------------------ the state ------------------------------ *)

NoInstance == [class |-> "None", coords |-> <<>>]

NoRun == [n0 |-> 0, k |-> 0]

Init ==
    /\ self = NoInstance
    /\ pc = "idle"
    /\ op = "none"
    /\ arg = <<>>
    /\ pre = <<>>
    /\ res = "none"
    /\ ret = <<>>
    /\ zrun = NoRun
    /\ plain = TRUE

\* the positions a caller passes to remove / retain of a space of length n:
\* every list of at most MaxPositions values of -1..n (-1 is a negative
\* position, n the first value out of range)
PositionLists(n) == SeqsUpTo(-1..Max2(n, 0), MaxPositions)

\* the position lists tried on the current instance
LSArgs ==
    IF pc = "idle" /\ self.class = "LinearSpace"
    THEN PositionLists(LS_len(self.coords))
    ELSE {}

Distinct(positions) ==
    \A j, k \in 1..Len(positions) : j # k => positions[j] # positions[k]

\* every value is a relative position of a space of length n
InRange(positions, n) ==
    \A k \in 1..Len(positions) : positions[k] >= 0 /\ positions[k] < n

\* plain records that every remove / retain call made on the instance so far
\* was given distinct positions, all of them in [0, len())
PlainList(positions, n) == Distinct(positions) /\ InRange(positions, n)

\* LinearSpace::__new__
LSNew(start, stop, init_state) ==
    /\ pc = "idle"
    /\ self = NoInstance
    /\ pc' = "returned"
    /\ op' = "LinearSpace.new"
    /\ arg' = <<start, stop, init_state>>
    /\ pre' = <<>>
    /\ ret' = <<>>
    /\ IF start > stop
       THEN /\ res' = "ValueError"
            /\ UNCHANGED <<self, zrun>>
       ELSE /\ res' = "Ok"
            /\ self' = [class |-> "LinearSpace",
                        coords |-> <<<<start, stop, init_state>>>>]
            /\ zrun' = [n0 |-> stop - start, k |-> 0]
    /\ UNCHANGED plain

\* the run of consecutive remove([0]) calls: n0 is len() when the run began,
\* k the number of remove([0]) calls made since (counted up to n0 + 2)
NextRun(positions, coords_after) ==
    IF positions = <<0>>
    THEN [zrun EXCEPT !.k = Min2(zrun.k + 1, Max2(zrun.n0, 0) + 2)]
    ELSE [n0 |-> LS_len(coords_after), k |-> 0]

\* LinearSpace::remove
LSRemove(positions) ==
    /\ pc = "idle"
    /\ self.class = "LinearSpace"
    /\ LET r == LS_remove(self.coords, positions)
       IN /\ self' = [self EXCEPT !.coords = r.coords]
          /\ res' = r.status
          /\ zrun' = NextRun(positions, r.coords)
    /\ plain' = (plain /\ PlainList(positions, LS_len(self.coords)))
    /\ pc' = "returned"
    /\ op' = "LinearSpace.remove"
    /\ arg' = positions
    /\ pre' = self.coords
    /\ ret' = <<>>

\* LinearSpace::retain
LSRetain(positions) ==
    /\ pc = "idle"
    /\ self.class = "LinearSpace"
    /\ LET r == LS_retain(self.coords, positions)
       IN /\ self' = [self EXCEPT !.coords = r.coords]
          /\ res' = r.status
          /\ zrun' = [n0 |-> LS_len(r.coords), k |-> 0]
    /\ plain' = (plain /\ PlainList(positions, LS_len(self.coords)))
    /\ pc' = "returned"
    /\ op' = "LinearSpace.retain"
    /\ arg' = positions
    /\ pre' = self.coords
    /\ ret' = <<>>

\* the indices a caller passes to extract / remove / retain of a CoordSpace
\* of n entries: -1 is a negative index, n the first index out of range
IndexLists(n) == SeqsUpTo(-1..n, MaxPositions)

\* the index lists tried on the current instance
CSArgs ==
    IF pc = "idle" /\ self.class = "CoordSpace"
    THEN IndexLists(Len(self.coords))
    ELSE {}

\* the Blocks a caller can build: Block::__new__ refuses start > stop
ValidBlocks ==
    {b \in [id : CSLabels, start : CSCoords, stop : CSCoords] :
        b.start <= b.stop}

BlockLists ==
    {bl \in SeqsUpTo(ValidBlocks, MaxArr) :
        Len(blocks_to_arrays(bl).data) <= MaxArr}

\* the record of a call that built or changed the instance
Called(name, a, before, r_status, r_ret) ==
    /\ pc' = "returned"
    /\ op' = name
    /\ arg' = a
    /\ pre' = before
    /\ res' = r_status
    /\ ret' = r_ret

\* a constructor of CoordSpace: the instance exists when it succeeds
CSBuilt(r) ==
    IF r.status = "Ok"
    THEN self' = [class |-> "CoordSpace", coords |-> r.coords]
    ELSE UNCHANGED self

\* CoordSpace::__new__
CSNew(start, stop) ==
    /\ pc = "idle"
    /\ self = NoInstance
    /\ CSBuilt(CS_new(start, stop))
    /\ Called("CoordSpace.new", <<start, stop>>, <<>>,
              CS_new(start, stop).status, <<>>)
    /\ UNCHANGED <<zrun, plain>>

\* CoordSpace::from_arrays
CSFromArrays(data, ids) ==
    /\ pc = "idle"
    /\ self = NoInstance
    /\ CSBuilt(CS_from_arrays(data, ids))
    /\ Called("CoordSpace.from_arrays", [data |-> data, ids |-> ids], <<>>,
              CS_from_arrays(data, ids).status, <<>>)
    /\ UNCHANGED <<zrun, plain>>

\* CoordSpace::from_blocks
CSFromBlocks(blocks) ==
    /\ pc = "idle"
    /\ self = NoInstance
    /\ CSBuilt(CS_from_blocks(blocks))
    /\ Called("CoordSpace.from_blocks", blocks, <<>>,
              CS_from_blocks(blocks).status, <<>>)
    /\ UNCHANGED <<zrun, plain>>

\* CoordSpace::extract: the receiver is not written, the new space is
\* returned
CSExtract(indices) ==
    /\ pc = "idle"
    /\ self.class = "CoordSpace"
    /\ LET r == CS_extract(self.coords, indices)
       IN Called("CoordSpace.extract", indices, self.coords, r.status, r.coords)
    /\ UNCHANGED <<self, zrun, plain>>

\* CoordSpace::remove
CSRemove(indices) ==
    /\ pc = "idle"
    /\ self.class = "CoordSpace"
    /\ LET r == CS_remove(self.coords, indices)
       IN /\ self' = [self EXCEPT !.coords = r.coords]
          /\ Called("CoordSpace.remove", indices, self.coords, r.status, <<>>)
    /\ UNCHANGED <<zrun, plain>>

\* CoordSpace::retain
CSRetain(indices) ==
    /\ pc = "idle"
    /\ self.class = "CoordSpace"
    /\ LET r == CS_retain(self.coords, indices)
       IN /\ self' = [self EXCEPT !.coords = r.coords]
          /\ Called("CoordSpace.retain", indices, self.coords, r.status, <<>>)
    /\ UNCHANGED <<zrun, plain>>

\* CoordSpace::to_blocks
CSToBlocks ==
    /\ pc = "idle"
    /\ self.class = "CoordSpace"
    /\ LET r == CS_to_blocks(self.coords)
       IN Called("CoordSpace.to_blocks", <<>>, self.coords, r.status, r.blocks)
    /\ UNCHANGED <<self, zrun, plain>>

\* CoordSpace::copy
CSCopy ==
    /\ pc = "idle"
    /\ self.class = "CoordSpace"
    /\ Called("CoordSpace.copy", <<>>, self.coords, "Ok", self.coords)
    /\ UNCHANGED <<self, zrun, plain>>

\* CoordSpace::len_all
CSLenAll ==
    /\ pc = "idle"
    /\ self.class = "CoordSpace"
    /\ Called("CoordSpace.len_all", <<>>, self.coords, "Ok",
              <<CS_len_all(self.coords)>>)
    /\ UNCHANGED <<self, zrun, plain>>

\* CoordSpace::len_seq
CSLenSeq ==
    /\ pc = "idle"
    /\ self.class = "CoordSpace"
    /\ Called("CoordSpace.len_seq", <<>>, self.coords, "Ok",
              <<CS_len_seq(self.coords)>>)
    /\ UNCHANGED <<self, zrun, plain>>

\* CoordSpace::len_gap
CSLenGap ==
    /\ pc = "idle"
    /\ self.class = "CoordSpace"
    /\ Called("CoordSpace.len_gap", <<>>, self.coords, "Ok",
              <<CS_len_gap(self.coords)>>)
    /\ UNCHANGED <<self, zrun, plain>>

\* the Block lists and arrays the codec functions are called with
CodecBlockLists == SeqsUpTo(ValidBlocks, MaxArr)
DataArrays == SeqsUpTo(CSCoords, MaxData)
IdArrays == SeqsUpTo(CSLabels, MaxData)

\* blocks_to_arrays, a free function: no instance is read or written
BlocksToArrays(blocks) ==
    /\ pc = "idle"
    /\ Called("blocks_to_arrays", blocks, <<>>, "Ok", blocks_to_arrays(blocks))
    /\ UNCHANGED <<self, zrun, plain>>

\* arrays_to_blocks, a free function: no instance is read or written
ArraysToBlocks(data, ids) ==
    /\ pc = "idle"
    /\ LET r == arrays_to_blocks(data, ids)
       IN Called("arrays_to_blocks", [data |-> data, ids |-> ids], <<>>,
                 r.status, r.blocks)
    /\ UNCHANGED <<self, zrun, plain>>

\* the caller has read the outcome of the call and goes on; after a panic
\* there is no going on
Return ==
    /\ pc = "returned"
    /\ res # "panic"
    /\ pc' = "idle"
    /\ op' = "none"
    /\ arg' = <<>>
    /\ pre' = <<>>
    /\ res' = "none"
    /\ ret' = <<>>
    /\ UNCHANGED <<self, zrun, plain>>

\* no instance yet: a constructor may be called
Fresh == pc = "idle" /\ self = NoInstance

Next ==
    \/ Fresh /\ \E start \in LSCoords, stop \in LSCoords, id \in LSLabels :
                   LSNew(start, stop, id)
    \/ \E positions \in LSArgs : LSRemove(positions)
    \/ \E positions \in LSArgs : LSRetain(positions)
    \/ Fresh /\ \E start \in CSCoords, stop \in CSCoords : CSNew(start, stop)
    \/ Fresh /\ \E data \in SeqsUpTo(CSCoords, MaxArr),
                      ids \in SeqsUpTo(CSLabels, MaxArr) :
                   CSFromArrays(data, ids)
    \/ Fresh /\ \E blocks \in BlockLists : CSFromBlocks(blocks)
    \/ \E indices \in CSArgs : CSExtract(indices)
    \/ \E indices \in CSArgs : CSRemove(indices)
    \/ \E indices \in CSArgs : CSRetain(indices)
    \/ CSToBlocks
    \/ CSCopy
    \/ CSLenAll
    \/ CSLenSeq
    \/ CSLenGap
    \/ Fresh /\ \E blocks \in CodecBlockLists : BlocksToArrays(blocks)
    \/ Fresh /\ \E data \in DataArrays, ids \in IdArrays :
                   ArraysToBlocks(data, ids)
    \/ Return

Spec == Init /\ [][Next]_vars

(* ------------------------- reading the state --------------------------- *)

\* the (absolute position, label) pairs of a block list, left to right
RECURSIVE Flatten(_)
Flatten(coords) ==
    IF coords = <<>> THEN <<>>
    ELSE LET r == Range(coords[1][1], coords[1][2])
         IN [k \in 1..Len(r) |-> <<r[k], coords[1][3]>>] \o Flatten(Tail(coords))

\* the absolute positions a block list covers
Covered(coords) ==
    UNION {coords[k][1]..(coords[k][2] - 1) : k \in 1..Len(coords)}

\* seq without the entries at the (0-based) indices listed in positions
DeleteAt(seq, positions) ==
    FilterIndex(seq, positions, FALSE)

\* a call of the named method has just returned
Returned(name) == pc = "returned" /\ op = name

LSEdited ==
    /\ pc = "returned"
    /\ op \in {"LinearSpace.remove", "LinearSpace.retain"}

(* ------------------------------- claims -------------------------------- *)

\* C1: after a successful LinearSpace.remove(P), P distinct and in
\* [0, len()), the flattened (absolute position, label) pairs are those
\* before the call with exactly the entries at the indices of P deleted.
C1_RemoveDeletesExactlyP ==
    (Returned("LinearSpace.remove") /\ res = "Ok"
        /\ Distinct(arg) /\ InRange(arg, LS_len(pre)))
    => Flatten(self.coords) = DeleteAt(Flatten(pre), arg)

\* C2: len() after a successful LinearSpace.remove(P), P distinct and in
\* [0, len()), is len() before the call minus the number of elements of P.
C2_RemoveShortensByLenP ==
    (Returned("LinearSpace.remove") /\ res = "Ok"
        /\ Distinct(arg) /\ InRange(arg, LS_len(pre)))
    => LS_len(self.coords) = LS_len(pre) - Len(arg)

\* C3: LinearSpace.remove(P) fails with IndexOutOfRange exactly when some
\* value of P is >= len(), and succeeds for every P of distinct values in
\* [0, len()): it never ends another way.
C3_RemoveTotal ==
    Returned("LinearSpace.remove")
    => /\ (res = "IndexError") <=> (\E k \in 1..Len(arg) : arg[k] >= LS_len(pre))
       /\ (Distinct(arg) /\ InRange(arg, LS_len(pre))) => res = "Ok"

\* C4: every stored triple of a LinearSpace has absStart <= absStop, in
\* every state that construct and remove / retain calls with distinct
\* in-range positions reach.
C4_StartAtMostStop ==
    (self.class = "LinearSpace" /\ res # "panic" /\ plain)
    => \A k \in 1..Len(self.coords) : self.coords[k][1] <= self.coords[k][2]

\* C5: retain(P), all of P < len(), the empty P included, leaves the block
\* list that remove(complement of P over 0..len()) leaves on a copy of the
\* same space.
C5_RetainIsRemoveComplement ==
    (Returned("LinearSpace.retain") /\ res # "IndexError")
    => LET n == LS_len(pre)
           r == LS_remove(pre, SelectSeq(Range(0, n),
                                         LAMBDA x : ~Contains(arg, x)))
       IN self.coords = r.coords /\ res = r.status

\* C6: a remove, retain or extract (of LinearSpace or CoordSpace) that
\* fails with IndexOutOfRange leaves the stored coords as they were before
\* the call.
C6_FailureLeavesUnchanged ==
    (pc = "returned" /\ res = "IndexError"
        /\ op \in {"LinearSpace.remove", "LinearSpace.retain",
                   "CoordSpace.remove", "CoordSpace.retain",
                   "CoordSpace.extract"})
    => self.coords = pre

\* C6 happens: a remove failed on a list that mixes the valid index 0 with
\* an index out of range, and the space was not empty
C6_Witness ==
    /\ pc = "returned"
    /\ res = "IndexError"
    /\ op \in {"CoordSpace.remove", "LinearSpace.remove"}
    /\ Len(arg) >= 2
    /\ Len(pre) >= 1
    /\ \E k \in 1..Len(arg) : arg[k] = 0

\* C7: in a run of remove([0]) calls on a space of length n0, each of the
\* first n0 calls succeeds, the n0-th leaves no position, and call n0 + 1
\* fails with IndexOutOfRange.
C7_DrainByZero ==
    (Returned("LinearSpace.remove") /\ arg = <<0>> /\ plain)
    => /\ zrun.k <= zrun.n0 => res = "Ok"
       /\ zrun.k = zrun.n0 => Flatten(self.coords) = <<>>
       /\ zrun.k = zrun.n0 + 1 => res = "IndexError"

\* block j lies left of block k whenever j < k
LeftToRight(coords) ==
    \A j, k \in 1..Len(coords) : j < k => coords[j][2] <= coords[k][1]

SameRun(p, c) == (p = -1 /\ c = -1) \/ (p >= 0 /\ c = p + 1)

\* the last index of the maximal run that holds index k
RECURSIVE RunEnd(_, _)
RunEnd(coords, k) ==
    IF k < Len(coords) /\ SameRun(coords[k], coords[k + 1])
    THEN RunEnd(coords, k + 1)
    ELSE k

\* one Block per maximal run: Block("s", first, last + 1) for a sequence
\* run, Block("g", 0, k) for a run of k gaps
RECURSIVE RunBlocks(_)
RunBlocks(coords) ==
    IF coords = <<>> THEN <<>>
    ELSE LET e == RunEnd(coords, 1)
         IN <<IF coords[1] = -1
              THEN Block("g", 0, e)
              ELSE Block("s", coords[1], coords[e] + 1)>>
            \o RunBlocks(SubSeq(coords, e + 1, Len(coords)))

\* C9: to_blocks() of a CoordSpace whose entries are all >= -1 returns one
\* Block per maximal run, left to right.
C9_ToBlocksRuns ==
    (Returned("CoordSpace.to_blocks") /\ \A k \in 1..Len(pre) : pre[k] >= -1)
    => res = "Ok" /\ ret = RunBlocks(pre)

\* C10: a CoordSpace that a successful operation produced or left behind
\* holds only entries >= -1.
C10_EntriesAtLeastGap ==
    /\ self.class = "CoordSpace"
       => \A k \in 1..Len(self.coords) : self.coords[k] >= -1
    /\ (pc = "returned" /\ res = "Ok"
           /\ op \in {"CoordSpace.extract", "CoordSpace.copy"})
       => \A k \in 1..Len(ret) : ret[k] >= -1

\* no two consecutive blocks have the same label and touching ranges
NoTouchingTwins(blocks) ==
    \A k \in 1..(Len(blocks) - 1) :
        ~(blocks[k].id = blocks[k + 1].id /\ blocks[k].stop = blocks[k + 1].start)

\* the Block list that arrays_to_blocks makes of the arrays blocks_to_arrays
\* has just returned
RoundTrip == arrays_to_blocks(ret.data, ret.ids).blocks

\* C11: for a Block list B of blocks with start <= stop (zero-length blocks
\* allowed) without consecutive same-label touching blocks,
\* arrays_to_blocks(blocks_to_arrays(B)) equals B block for block.
C11_RoundTripIsIdentity ==
    (Returned("blocks_to_arrays") /\ NoTouchingTwins(arg))
    => RoundTrip = arg

\* C11 as amended: the same for a Block list B whose blocks all have
\* start < stop (no zero-length block).
C11_RoundTripOfNonEmptyBlocks ==
    (Returned("blocks_to_arrays") /\ NoTouchingTwins(arg)
        /\ \A k \in 1..Len(arg) : arg[k].start < arg[k].stop)
    => RoundTrip = arg

\* C11 happens: two non-empty blocks of one label that do not touch came
\* back as two blocks
C11_Witness ==
    /\ Returned("blocks_to_arrays")
    /\ Len(arg) = 2
    /\ \A k \in 1..2 : arg[k].start < arg[k].stop
    /\ arg[1].id = arg[2].id
    /\ arg[1].stop # arg[2].start
    /\ Len(RoundTrip) = 2

\* C12: for a non-empty Block list B of blocks with start <= stop, the
\* arrays of arrays_to_blocks(blocks_to_arrays(B)) are the arrays of B, also
\* when touching blocks of one label were merged.
C12_RoundTripKeepsArrays ==
    (Returned("blocks_to_arrays") /\ arg # <<>>)
    => blocks_to_arrays(RoundTrip) = ret

\* C12 happens: two touching non-empty blocks of one label came back merged
\* into one
C12_Witness ==
    /\ Returned("blocks_to_arrays")
    /\ Len(arg) = 2
    /\ \A k \in 1..2 : arg[k].start < arg[k].stop
    /\ ~NoTouchingTwins(arg)
    /\ Len(RoundTrip) = 1

\* the places of data (counted from 1) where a Block boundary is due: the
\* label changes, or the position is not the previous position plus one
Cuts(data, ids) ==
    {i \in 2..Len(data) : ids[i] # ids[i - 1] \/ data[i] # data[i - 1] + 1}

AllBelow(indices, n) == \A k \in 1..Len(indices) : indices[k] < n

\* C14: extract(indices), every index in [0, len_all()), duplicates, any
\* order and the empty list included, returns coords of the length of indices
\* whose k-th entry is self.coords[indices[k]], and leaves the receiver
\* unchanged; extract([]) returns an empty CoordSpace.
C14_ExtractPicksInOrder ==
    (Returned("CoordSpace.extract") /\ InRange(arg, Len(pre)))
    => /\ res = "Ok"
       /\ Len(ret) = Len(arg)
       /\ \A k \in 1..Len(arg) : ret[k] = pre[arg[k] + 1]
       /\ self.coords = pre

\* the (0-based) indices of a list of n entries that are listed in indices
\* (listed = TRUE) or not listed (listed = FALSE)
IndexSet(n, indices, listed) ==
    {i \in 0..(n - 1) : (\E k \in 1..Len(indices) : indices[k] = i) = listed}

\* the entries of seq at the indices of the set I, in ascending index order
Pick(seq, I) ==
    [k \in 1..Cardinality(I) |->
        seq[(CHOOSE i \in I : Cardinality({j \in I : j < i}) = k - 1) + 1]]

\* C15: for indices all < len_all(), CoordSpace.remove leaves exactly the
\* entries whose index is not listed and retain exactly those whose index is
\* listed, in their original order, whatever the duplicates or order of the
\* argument; retain([]) leaves nothing and remove([]) changes nothing.
C15_RemoveRetainByIndex ==
    /\ (Returned("CoordSpace.remove") /\ AllBelow(arg, Len(pre)))
       => /\ res = "Ok"
          /\ self.coords = Pick(pre, IndexSet(Len(pre), arg, FALSE))
          /\ arg = <<>> => self.coords = pre
    /\ (Returned("CoordSpace.retain") /\ AllBelow(arg, Len(pre)))
       => /\ res = "Ok"
          /\ self.coords = Pick(pre, IndexSet(Len(pre), arg, TRUE))
          /\ arg = <<>> => self.coords = <<>>

\* C15 happens: a retain with a repeated index, given in descending order,
\* kept some entries of a longer space
C15_Witness ==
    /\ Returned("CoordSpace.retain")
    /\ res = "Ok"
    /\ Len(arg) = 3
    /\ arg[1] > arg[2] /\ arg[2] = arg[3]
    /\ Len(self.coords) = 2
    /\ Len(pre) > 2

\* len_seq() + len_gap() <= len_all() of a space with these coords, with
\* equality exactly when no entry is 0
LensAddUp(coords) ==
    /\ CS_len_seq(coords) + CS_len_gap(coords) <= CS_len_all(coords)
    /\ (CS_len_seq(coords) + CS_len_gap(coords) = CS_len_all(coords))
       <=> (\A k \in 1..Len(coords) : coords[k] # 0)

\* C16: in every state of a CoordSpace (the instance, and the space extract
\* returns), len_seq() + len_gap() <= len_all(), with equality exactly when
\* no stored entry is 0.
C16_SeqPlusGapAtMostAll ==
    self.class = "CoordSpace"
    => /\ LensAddUp(self.coords)
       /\ (Returned("CoordSpace.extract") /\ res = "Ok") => LensAddUp(ret)
       /\ Returned("CoordSpace.len_all") => ret = <<CS_len_all(self.coords)>>
       /\ Returned("CoordSpace.len_seq") => ret = <<CS_len_seq(self.coords)>>
       /\ Returned("CoordSpace.len_gap") => ret = <<CS_len_gap(self.coords)>>

\* C16 happens: len_seq was asked of a space that holds a 0, a gap and a
\* positive coordinate, and counted the positive one only
C16_Witness ==
    /\ Returned("CoordSpace.len_seq")
    /\ Len(pre) = 3
    /\ \E i, j, k \in 1..3 : pre[i] = 0 /\ pre[j] = -1 /\ pre[k] > 0
    /\ ret = <<1>>

\* block o (counted from 1) of the block list owns relative position p
Owns(coords, o, p) ==
    RelBlocks(coords)[o][1] <= p /\ p < RelBlocks(coords)[o][2]

\* the block list with block o replaced by the blocks of the list put
ReplaceBlock(coords, o, put) ==
    SubSeq(coords, 1, o - 1) \o put \o SubSeq(coords, o + 1, Len(coords))

\* what removing the single position p from its owner o is to leave: the
\* owner split around p, deleted, or trimmed by one at its start or stop
OwnerEdited(coords, o, p) ==
    LET b       == coords[o]
        first   == RelBlocks(coords)[o][1]
        last    == RelBlocks(coords)[o][2] - 1
        abs_pos == b[1] + (p - first)
    IN IF first < p /\ p < last
       THEN ReplaceBlock(coords, o, <<<<b[1], abs_pos, b[3]>>,
                                      <<abs_pos + 1, b[2], b[3]>>>>)
       ELSE IF p = first
       THEN IF b[2] - b[1] = 1
            THEN ReplaceBlock(coords, o, <<>>)
            ELSE ReplaceBlock(coords, o, <<<<b[1] + 1, b[2], b[3]>>>>)
       ELSE ReplaceBlock(coords, o, <<<<b[1], b[2] - 1, b[3]>>>>)

\* C17: remove([p]) of a single in-range position p changes only the block
\* that owns p: an interior p splits the owner into [absStart, absPos) and
\* [absPos + 1, absStop), p at the owner's start deletes an owner of length
\* 1 and otherwise advances absStart by 1, p at the owner's end decreases
\* absStop by 1; every other block keeps its triple.  Stated for the spaces
\* that calls with distinct in-range positions reach.
C17_SingleRemoveEditsOwner ==
    (Returned("LinearSpace.remove") /\ Len(arg) = 1
        /\ InRange(arg, LS_len(pre)) /\ plain)
    => /\ res = "Ok"
       /\ \E o \in 1..Len(pre) :
              /\ Owns(pre, o, arg[1])
              /\ self.coords = OwnerEdited(pre, o, arg[1])

\* a block with absStart >= absStop is in the list
HasEmptyBlock(coords) == \E k \in 1..Len(coords) : coords[k][1] >= coords[k][2]

\* C18: remove and retain never leave a zero-length block behind: a
\* successful call on a LinearSpace whose blocks all have absStart < absStop
\* leaves only blocks with absStart < absStop.  Stated for calls with
\* distinct in-range positions.
C18_NoEmptyBlockLeft ==
    (LSEdited /\ res = "Ok" /\ plain /\ ~HasEmptyBlock(pre))
    => ~HasEmptyBlock(self.coords)

\* the sum of (stop - start) over the blocks whose label is in labels
RECURSIVE Span(_, _)
Span(blocks, labels) ==
    IF blocks = <<>> THEN 0
    ELSE (IF blocks[1].id \in labels THEN blocks[1].stop - blocks[1].start ELSE 0)
         + Span(Tail(blocks), labels)

\* C19: to_blocks() of a CoordSpace whose entries are all >= -1 covers every
\* entry exactly once: every returned Block has start <= stop, the lengths of
\* all blocks add up to len_all(), those of the "g" blocks to the number of
\* -1 entries and those of the "s" blocks to the number of entries >= 0.
C19_ToBlocksCoversEachEntryOnce ==
    (Returned("CoordSpace.to_blocks") /\ \A k \in 1..Len(pre) : pre[k] >= -1)
    => /\ res = "Ok"
       /\ \A k \in 1..Len(ret) : ret[k].start <= ret[k].stop
       /\ Span(ret, {"s", "g"}) = CS_len_all(pre)
       /\ \A k \in 1..Len(ret) : ret[k].id \in {"s", "g"}
       /\ Span(ret, {"g"}) = Len(SelectSeq(pre, LAMBDA x : x = -1))
       /\ Span(ret, {"s"}) = Len(SelectSeq(pre, LAMBDA x : x >= 0))

====
